---- MODULE Spec2Model ----
(***************************************************************************)
(* The cluster process supervisor of run_cluster.py (class ClusterManager  *)
(* and main) as a state machine.  The supervisor is one Python thread: its *)
(* call stack is the variable `stack`, whose last element is the running   *)
(* frame.  A signal handler runs on top of whatever frame it interrupts.   *)
(* The node processes are the only other actors: they may exit by          *)
(* themselves at any time and die of the signals they are sent.            *)
(***************************************************************************)
EXTENDS Integers, Sequences, FiniteSets, TLC

\* ------------------------------------------------------------- bounds
TotalNodes == 3
MaxSignals == 2
MaxCalls == 2
MaxProcs == 3
MaxReady == 2
MaxMissing == 1
MaxMembers == 2

\* ---------------------------------------------------------- constants
\* Python's None; a value v that may be None is held as Some(v).
NoneVal == <<>>
Some(v) == <<v>>
Nodes == 1..TotalNodes
SIGTERM == 15
SIGKILL == 9
ExitCodes == {0, 1}

\* The files check_node_ready looks for, in the order of its list.
required_files == <<"swarm.pem", "userApiKey.json", "userData.json", "main.py">>

Range(s) == {s[j] : j \in 1..Len(s)}

\* The directory contents a node may have been provisioned with.
FileSets == {Range(required_files), Range(required_files) \ {"main.py"}}

VARIABLES
    files,        \* files[n]: the files present in node n's directory
    scripts,      \* nodes whose launch script has been written
    procs,        \* OS processes ever spawned; the pid is the index
    processes,    \* self.processes: the table, a list of entries
    stack,        \* the supervisor's call stack, top last
    exitStatus,   \* NoneVal while the supervisor runs, then its exit status
    signals,      \* signals delivered to the supervisor so far
    calls,        \* operations a library client has called so far
    attempted,    \* node_ids start_all has called start_node for, in order
    lastStart,    \* the last start_node call that returned
    report,       \* what the last start_all printed at its end
    errors,       \* failures injected so far, by kind
    stopLog,      \* what stop_all invocations did: signal failures, returns
    monitorLog,   \* what monitor_nodes logged and how it ended
    checked,      \* the last readiness check made by one of the tools, and its result
    credentials,  \* rl-swarm-cluster/credentials: the files present and their text
    node_creds,   \* the credential files prepare_credentials wrote, per node
    prep          \* prepare_credentials: its position and local variables

\* The state of the provisioning tools, which the supervisor never touches.
tools == <<checked, credentials, node_creds, prep>>

vars == <<files, scripts, procs, processes, stack, exitStatus, signals, calls,
          attempted, lastStart, report, errors, stopLog, monitorLog, tools>>

\* --------------------------------------------------------------- frames
Frame(fn, pc) ==
    [fn |-> fn, pc |-> pc, node_id |-> 0, idx |-> 0, count |-> 0,
     process |-> 0, via |-> "call", snap |-> <<>>, active |-> <<>>]

Top(stk) == stk[Len(stk)]
Pop(stk) == SubSeq(stk, 1, Len(stk) - 1)
SetTop(stk, f) == [stk EXCEPT ![Len(stk)] = f]
Push(stk, f) == Append(stk, f)

Running(fn) == exitStatus = NoneVal /\ stack /= <<>> /\ Top(stack).fn = fn
At(fn, pc) == Running(fn) /\ Top(stack).pc = pc

\* ------------------------------------------------------ readiness check
\* check_node_ready: missing_files = [f.name for f in required_files if not f.exists()]
missing_files(fs) == SelectSeq(required_files, LAMBDA f : f \notin fs)

check_node_ready_always(fs) == TRUE

check_node_ready(fs) == missing_files(fs) = <<>>

\* ---------------------------------------------------------- exceptions
\* SystemExit and KeyboardInterrupt derive from BaseException only.
IsException(e) == e \in {"OSError", "ValueError"}

\* start_node: try (Popen, append) except Exception
start_node_except_bare(f, e) == f.pc \in {"spawn", "append"}

start_node_except(f, e) == f.pc \in {"spawn", "append"} /\ IsException(e)

\* stop_all_nodes: three bare except clauses
stop_all_except_narrow(f, e) ==
    f.pc \in {"term_try", "term_sent", "term_fallback", "kill_try", "kill_do"}
    /\ e = "SystemExit"

stop_all_except(f, e) ==
    f.pc \in {"term_try", "term_sent", "term_fallback", "kill_try", "kill_do"}

\* monitor_nodes: try (while loop) except KeyboardInterrupt
monitor_except(f, e) == f.pc \in {"poll", "remove", "sleep"} /\ e = "KeyboardInterrupt"

\* main: try (start_all_nodes, monitor_nodes) except Exception
main_except(f, e) == f.pc \in {"start_all", "monitor"} /\ IsException(e)

Catches(f, e) ==
    CASE f.fn = "start_node" -> start_node_except(f, e)
      [] f.fn = "stop_all_nodes" -> stop_all_except(f, e)
      [] f.fn = "monitor_nodes" -> monitor_except(f, e)
      [] f.fn = "main" -> main_except(f, e)
      [] OTHER -> FALSE

\* The frame after its except clause has taken over.
Handled(f) ==
    CASE f.fn = "start_node" -> [f EXCEPT !.pc = "failed"]
      [] f.fn = "stop_all_nodes" ->
            IF f.pc \in {"term_try", "term_sent"}
            THEN [f EXCEPT !.pc = "term_fallback"]
            ELSE IF f.pc = "term_fallback"
            THEN [f EXCEPT !.pc = "term", !.idx = @ + 1]
            ELSE [f EXCEPT !.pc = "kill", !.idx = @ + 1]
      [] f.fn = "monitor_nodes" -> [f EXCEPT !.pc = "interrupted"]
      [] f.fn = "main" -> [f EXCEPT !.pc = "except"]
      [] OTHER -> f

\* Exception e raised in the top frame of stk: the stack once the innermost
\* enclosing except clause that matches has caught it, or <<>> if none does.
RECURSIVE Propagate(_, _)
Propagate(stk, e) ==
    IF stk = <<>> THEN <<>>
    ELSE IF Catches(Top(stk), e) THEN SetTop(stk, Handled(Top(stk)))
    ELSE Propagate(Pop(stk), e)

\* The interpreter's exit status when e reaches the top level uncaught.
UncaughtStatus(e) == IF e = "SystemExit" THEN Some(0) ELSE Some(1)

\* The supervisor's stack and exit status after e is raised in the top frame of stk.
Raise(stk, e) ==
    /\ stack' = Propagate(stk, e)
    /\ exitStatus' = IF Propagate(stk, e) = <<>> THEN UncaughtStatus(e) ELSE exitStatus

\* ------------------------------------------------------------ processes
NewProc(n) == [node_id |-> n, status |-> NoneVal, returncode |-> NoneVal,
               term |-> FALSE, kill |-> FALSE]

Alive(p) == procs[p].status = NoneVal

\* Popen.poll(): the return code, collected from the OS if the process has ended.
Polled(ps, p) == [ps EXCEPT ![p].returncode = ps[p].status]

Entry(n, p) == [node_id |-> n, process |-> p]

NodeIds(t) == [j \in 1..Len(t) |-> t[j].node_id]

\* The frame of a call stop_all_nodes(), made by a caller or by signal_handler.
StopAllFrame(via) == [Frame("stop_all_nodes", "term") EXCEPT !.idx = 1, !.via = via]

\* No provisioning tool is running and none has run.
ToolsIdle ==
    /\ checked = [t \in {"check_node_ready", "launch script", "check_cluster"} |-> NoneVal]
    /\ credentials = [present |-> {}, api |-> [valid |-> TRUE, members |-> <<>>],
                      data |-> [valid |-> TRUE, members |-> <<>>]]
    /\ node_creds = [i \in 1..10 |-> NoneVal]
    /\ prep = [pc |-> "idle", i |-> 0, heap |-> <<>>, base_api_key |-> 0,
               base_user_data |-> 0, result |-> NoneVal]

Init ==
    /\ files \in [Nodes -> FileSets]
    /\ scripts = {}
    /\ procs = <<>>
    /\ processes = <<>>
    /\ stack = <<Frame("main", "start_all")>>
    /\ exitStatus = NoneVal
    /\ signals = 0
    /\ calls = 0
    /\ attempted = <<>>
    /\ lastStart = NoneVal
    /\ report = NoneVal
    /\ errors = {}
    /\ stopLog = {}
    /\ monitorLog = {}
    /\ ToolsIdle

\* ------------------------------------------------------- node processes
\* A node process ends by itself.
ChildExit ==
    \E p \in 1..Len(procs), c \in ExitCodes :
        /\ Alive(p) /\ ~procs[p].kill
        /\ procs' = [procs EXCEPT ![p].status = Some(c)]
        /\ UNCHANGED <<tools, files, scripts, processes, stack, exitStatus, signals, calls,
                       attempted, lastStart, report, errors, stopLog, monitorLog>>

\* A node process dies of a signal it was sent.
ChildSignalled ==
    \E p \in 1..Len(procs) :
        /\ Alive(p) /\ (procs[p].term \/ procs[p].kill)
        /\ procs' = [procs EXCEPT ![p].status =
                        Some(IF procs[p].kill THEN -SIGKILL ELSE -SIGTERM)]
        /\ UNCHANGED <<tools, files, scripts, processes, stack, exitStatus, signals, calls,
                       attempted, lastStart, report, errors, stopLog, monitorLog>>

\* ------------------------------------------------------------ start_node
\* What the caller does with start_node's return value.
StartNodeReturn(result, table) ==
    LET f == Top(stack)
        rest == Pop(stack)
        c == Top(rest)
    IN /\ stack' = SetTop(rest,
              IF c.fn = "start_all_nodes"
              THEN IF result /= NoneVal
                   THEN [c EXCEPT !.count = @ + 1, !.pc = "sleep"]
                   ELSE [c EXCEPT !.node_id = @ + 1]
              ELSE [c EXCEPT !.pc = "idle"])
       /\ lastStart' = Some([node_id |-> f.node_id, result |-> result,
                        before |-> f.snap, after |-> table,
                        spawned |-> Len(procs) - f.count])

\* if not self.check_node_ready(node_id): return None
StartNodeCheck ==
    /\ At("start_node", "check")
    /\ IF check_node_ready(files[Top(stack).node_id])
       THEN /\ stack' = SetTop(stack, [Top(stack) EXCEPT !.pc = "script"])
            /\ UNCHANGED lastStart
       ELSE StartNodeReturn(NoneVal, processes)
    /\ UNCHANGED <<tools, files, scripts, procs, processes, exitStatus, signals, calls,
                   attempted, report, errors, stopLog, monitorLog>>

\* script_path = self.create_node_script(node_id); open() or chmod() may raise.
StartNodeScript ==
    /\ At("start_node", "script")
    /\ \/ /\ scripts' = scripts \cup {Top(stack).node_id}
          /\ stack' = SetTop(stack, [Top(stack) EXCEPT !.pc = "spawn"])
          /\ UNCHANGED <<exitStatus, errors>>
       \/ /\ Raise(stack, "OSError")
          /\ errors' = errors \cup {"script"}
          /\ UNCHANGED scripts
    /\ UNCHANGED <<tools, files, procs, processes, signals, calls,
                   attempted, lastStart, report, stopLog, monitorLog>>

\* process = subprocess.Popen([script], cwd=node_dir, env=env, preexec_fn=os.setsid)
StartNodeSpawn ==
    /\ At("start_node", "spawn")
    /\ \/ /\ procs' = Append(procs, NewProc(Top(stack).node_id))
          /\ stack' = SetTop(stack, [Top(stack) EXCEPT !.pc = "append",
                                                       !.process = Len(procs) + 1])
          /\ UNCHANGED <<exitStatus, errors>>
       \/ /\ Raise(stack, "OSError")
          /\ errors' = errors \cup {"spawn"}
          /\ UNCHANGED procs
    /\ UNCHANGED <<tools, files, scripts, processes, signals, calls,
                   attempted, lastStart, report, stopLog, monitorLog>>

append_front(t, x) == <<x>> \o t

\* list.append(x)
append(t, x) == Append(t, x)

\* self.processes.append({...}); return process
StartNodeAppend ==
    /\ At("start_node", "append")
    /\ processes' = append(processes, Entry(Top(stack).node_id, Top(stack).process))
    /\ StartNodeReturn(Some(Top(stack).process),
                       append(processes, Entry(Top(stack).node_id, Top(stack).process)))
    /\ UNCHANGED <<tools, files, scripts, procs, exitStatus, signals, calls,
                   attempted, report, errors, stopLog, monitorLog>>

\* except Exception as e: print(...); return None
StartNodeFailed ==
    /\ At("start_node", "failed")
    /\ StartNodeReturn(NoneVal, processes)
    /\ UNCHANGED <<tools, files, scripts, procs, processes, exitStatus, signals, calls,
                   attempted, report, errors, stopLog, monitorLog>>

\* The frame of a call start_node(n).
StartNodeFrame(n) ==
    [Frame("start_node", "check") EXCEPT !.node_id = n, !.snap = processes,
                                         !.count = Len(procs)]

\* -------------------------------------------------------- start_all_nodes
\* The stack once a callee has returned normally to the top frame of stk: main
\* goes on to monitor_nodes or ends, a monitor that was interrupted returns too.
RECURSIVE ReturnTo(_)
ReturnTo(stk) ==
    IF stk = <<>> THEN stk
    ELSE LET c == Top(stk)
         IN IF c.fn = "main" /\ c.pc = "start_all"
            THEN SetTop(stk, [c EXCEPT !.pc = "monitor"])
            ELSE IF c.fn = "main" THEN <<>>
            ELSE IF c.fn = "client" THEN SetTop(stk, [c EXCEPT !.pc = "idle"])
            ELSE IF c.fn = "monitor_nodes" THEN ReturnTo(Pop(stk))
            ELSE stk

\* for i in range(1, self.total_nodes + 1): process = self.start_node(i) ...
StartAllLoop ==
    /\ At("start_all_nodes", "loop")
    /\ LET f == Top(stack)
       IN IF f.node_id <= TotalNodes
          THEN /\ stack' = Push(stack, StartNodeFrame(f.node_id))
               /\ attempted' = Append(attempted, f.node_id)
               /\ UNCHANGED <<report, exitStatus>>
          ELSE /\ stack' = ReturnTo(Pop(stack))
               /\ exitStatus' = IF ReturnTo(Pop(stack)) = <<>> THEN Some(0) ELSE exitStatus
               /\ report' = Some([success |-> f.count, total |-> TotalNodes,
                                  table |-> processes])
               /\ UNCHANGED attempted
    /\ UNCHANGED <<tools, files, scripts, procs, processes, signals, calls,
                   lastStart, errors, stopLog, monitorLog>>

\* time.sleep(3)  # Stagger startup
StartAllSleep ==
    /\ At("start_all_nodes", "sleep")
    /\ stack' = SetTop(stack, [Top(stack) EXCEPT !.pc = "loop", !.node_id = @ + 1])
    /\ UNCHANGED <<tools, files, scripts, procs, processes, exitStatus, signals, calls,
                   attempted, lastStart, report, errors, stopLog, monitorLog>>

StartAllFrameFrom2 == [Frame("start_all_nodes", "loop") EXCEPT !.node_id = 2]

\* for i in range(1, self.total_nodes + 1), with success_count = 0
StartAllFrame == [Frame("start_all_nodes", "loop") EXCEPT !.node_id = 1]

\* ------------------------------------------------------------------ main
\* cluster.start_all_nodes()
MainStartAll ==
    /\ At("main", "start_all")
    /\ stack' = Push(stack, StartAllFrame)
    /\ attempted' = <<>>
    /\ UNCHANGED <<tools, files, scripts, procs, processes, exitStatus, signals, calls,
                   lastStart, report, errors, stopLog, monitorLog>>

\* except Exception as e: print(...); cluster.stop_all_nodes()
MainExcept ==
    /\ At("main", "except")
    /\ stack' = Push(stack, StopAllFrame("call"))
    /\ UNCHANGED <<tools, files, scripts, procs, processes, exitStatus, signals, calls,
                   attempted, lastStart, report, errors, stopLog, monitorLog>>

\* ---------------------------------------------------------- stop_all_nodes
\* Moves the top frame to pc, with the loop index advanced by step.
Goto(pc, step) ==
    stack' = SetTop(stack, [Top(stack) EXCEPT !.pc = pc, !.idx = @ + step])

\* for proc_info in self.processes: (the first loop's iterator)
StopAllTermNext ==
    /\ At("stop_all_nodes", "term")
    /\ LET f == Top(stack)
       IN IF f.idx <= Len(processes)
          THEN stack' = SetTop(stack, [f EXCEPT !.pc = "term_try",
                                         !.node_id = processes[f.idx].node_id,
                                         !.process = processes[f.idx].process])
          ELSE stack' = SetTop(stack, [f EXCEPT !.pc = "grace"])
    /\ UNCHANGED <<tools, files, scripts, procs, processes, exitStatus, signals, calls,
                   attempted, lastStart, report, errors, stopLog, monitorLog>>

\* os.getpgid(pid) raises ProcessLookupError once the process has been reaped.
killpg_fails(ps, p) == ps[p].returncode /= NoneVal

\* try: os.killpg(os.getpgid(proc_info['process'].pid), signal.SIGTERM)
StopAllKillpg ==
    /\ At("stop_all_nodes", "term_try")
    /\ LET p == Top(stack).process
       IN IF killpg_fails(procs, p)
          THEN /\ Raise(stack, "OSError")
               /\ stopLog' = stopLog \cup {"SignalError"}
               /\ UNCHANGED procs
          ELSE /\ procs' = [procs EXCEPT ![p].term = TRUE]
               /\ Goto("term_sent", 0)
               /\ UNCHANGED <<exitStatus, stopLog>>
    /\ UNCHANGED <<tools, files, scripts, processes, signals, calls,
                   attempted, lastStart, report, errors, monitorLog>>

\* print(f"Stopped node_{...}")
StopAllTermPrint ==
    /\ At("stop_all_nodes", "term_sent")
    /\ Goto("term", 1)
    /\ UNCHANGED <<tools, files, scripts, procs, processes, exitStatus, signals, calls,
                   attempted, lastStart, report, errors, stopLog, monitorLog>>

send_signal_sigterm(ps, p, sig) ==
    IF ps[p].status /= NoneVal THEN Polled(ps, p) ELSE [ps EXCEPT ![p].term = TRUE]

\* Popen.send_signal(sig): polls, and signals the process only if it has not ended.
send_signal(ps, p, sig) ==
    IF ps[p].status /= NoneVal THEN Polled(ps, p)
    ELSE IF sig = SIGKILL THEN [ps EXCEPT ![p].kill = TRUE]
    ELSE [ps EXCEPT ![p].term = TRUE]

\* except: try: proc_info['process'].terminate() except: pass
StopAllTerminate ==
    /\ At("stop_all_nodes", "term_fallback")
    /\ procs' = send_signal(procs, Top(stack).process, SIGTERM)
    /\ Goto("term", 1)
    /\ UNCHANGED <<tools, files, scripts, processes, exitStatus, signals, calls,
                   attempted, lastStart, report, errors, stopLog, monitorLog>>

\* Where stop_all_nodes goes on after time.sleep(3).
after_grace_return == "return"

after_grace == "kill"

\* time.sleep(3)
StopAllGrace ==
    /\ At("stop_all_nodes", "grace")
    /\ stack' = SetTop(stack, [Top(stack) EXCEPT !.pc = after_grace, !.idx = 1])
    /\ UNCHANGED <<tools, files, scripts, procs, processes, exitStatus, signals, calls,
                   attempted, lastStart, report, errors, stopLog, monitorLog>>

\* for proc_info in self.processes: (the second loop's iterator)
StopAllKillNext ==
    /\ At("stop_all_nodes", "kill")
    /\ LET f == Top(stack)
       IN IF f.idx <= Len(processes)
          THEN stack' = SetTop(stack, [f EXCEPT !.pc = "kill_try",
                                         !.node_id = processes[f.idx].node_id,
                                         !.process = processes[f.idx].process])
          ELSE stack' = SetTop(stack, [f EXCEPT !.pc = "clear"])
    /\ UNCHANGED <<tools, files, scripts, procs, processes, exitStatus, signals, calls,
                   attempted, lastStart, report, errors, stopLog, monitorLog>>

\* try: if proc_info['process'].poll() is None:
StopAllPoll ==
    /\ At("stop_all_nodes", "kill_try")
    /\ procs' = Polled(procs, Top(stack).process)
    /\ IF Polled(procs, Top(stack).process)[Top(stack).process].returncode = NoneVal
       THEN Goto("kill_do", 0)
       ELSE Goto("kill", 1)
    /\ UNCHANGED <<tools, files, scripts, processes, exitStatus, signals, calls,
                   attempted, lastStart, report, errors, stopLog, monitorLog>>

\* proc_info['process'].kill()
StopAllKill ==
    /\ At("stop_all_nodes", "kill_do")
    /\ procs' = send_signal(procs, Top(stack).process, SIGKILL)
    /\ Goto("kill", 1)
    /\ UNCHANGED <<tools, files, scripts, processes, exitStatus, signals, calls,
                   attempted, lastStart, report, errors, stopLog, monitorLog>>

clear_none(t) == t

\* list.clear()
clear(t) == <<>>

\* self.processes.clear()
StopAllClear ==
    /\ At("stop_all_nodes", "clear")
    /\ processes' = clear(processes)
    /\ Goto("return", 0)
    /\ UNCHANGED <<tools, files, scripts, procs, exitStatus, signals, calls,
                   attempted, lastStart, report, errors, stopLog, monitorLog>>

\* print("All nodes stopped") and the return: the signal handler goes on to
\* sys.exit(0), any other caller goes on after its call.
StopAllReturn ==
    /\ At("stop_all_nodes", "return")
    /\ IF Top(stack).via = "signal"
       THEN /\ Raise(Pop(stack), "SystemExit")
            /\ stopLog' = stopLog \cup
                  IF Propagate(Pop(stack), "SystemExit") = <<>>
                  THEN {"handler returned"}
                  ELSE {"handler returned", "SystemExit caught"}
       ELSE /\ stack' = ReturnTo(Pop(stack))
            /\ exitStatus' = IF ReturnTo(Pop(stack)) = <<>> THEN Some(0) ELSE exitStatus
            /\ UNCHANGED stopLog
    /\ UNCHANGED <<tools, files, scripts, procs, processes, signals, calls,
                   attempted, lastStart, report, errors, monitorLog>>

\* ---------------------------------------------------------- signal handler
\* SIGINT or SIGTERM arrives: signal_handler runs on top of the interrupted frame
\* and calls cluster.stop_all_nodes().
Signal ==
    /\ exitStatus = NoneVal /\ stack /= <<>>
    /\ stack[1].fn = "main"
    /\ signals < MaxSignals
    /\ signals' = signals + 1
    /\ stack' = Push(stack, StopAllFrame("signal"))
    /\ UNCHANGED <<tools, files, scripts, procs, processes, exitStatus, calls,
                   attempted, lastStart, report, errors, stopLog, monitorLog>>

\* ------------------------------------------------------------ monitor_nodes
remove_none(t, x) == t

\* list.remove(x): the list without its first element equal to x.
RECURSIVE remove(_, _)
remove(t, x) ==
    IF t = <<>> THEN t
    ELSE IF Head(t) = x THEN Tail(t)
    ELSE <<Head(t)>> \o remove(Tail(t), x)

\* Whether the monitor counts a polled process as active.
is_active_always(returncode) == TRUE

is_active(returncode) == returncode = NoneVal

\* if len(active_nodes) == 0: break
all_stopped_or_one(active) == Len(active) <= 1

all_stopped(active) == Len(active) = 0

\* active_nodes = []; for proc_info in self.processes[:]:
MonitorFrame ==
    [Frame("monitor_nodes", "poll") EXCEPT !.snap = processes, !.idx = 1]

\* cluster.monitor_nodes()
MainMonitor ==
    /\ At("main", "monitor")
    /\ stack' = Push(stack, MonitorFrame)
    /\ UNCHANGED <<tools, files, scripts, procs, processes, exitStatus, signals, calls,
                   attempted, lastStart, report, errors, stopLog, monitorLog>>

\* for proc_info in self.processes[:]: if proc_info['process'].poll() is None:
\*     active_nodes.append(proc_info['node_id'])
MonitorPoll ==
    /\ At("monitor_nodes", "poll")
    /\ Top(stack).idx <= Len(Top(stack).snap)
    /\ LET f == Top(stack)
           e == f.snap[f.idx]
           ps == Polled(procs, e.process)
       IN /\ procs' = ps
          /\ IF is_active(ps[e.process].returncode)
             THEN stack' = SetTop(stack, [f EXCEPT !.idx = @ + 1,
                                             !.active = Append(@, e.node_id)])
             ELSE stack' = SetTop(stack, [f EXCEPT !.pc = "remove"])
    /\ UNCHANGED <<tools, files, scripts, processes, exitStatus, signals, calls,
                   attempted, lastStart, report, errors, stopLog, monitorLog>>

\* else: exit_code = proc_info['process'].returncode; print(...);
\*       self.processes.remove(proc_info)
MonitorRemove ==
    /\ At("monitor_nodes", "remove")
    /\ LET f == Top(stack)
           e == f.snap[f.idx]
       IN /\ monitorLog' = monitorLog \cup
                             {<<"stopped", e.node_id, procs[e.process].returncode>>}
          /\ IF e \in Range(processes)
             THEN /\ processes' = remove(processes, e)
                  /\ stack' = SetTop(stack, [f EXCEPT !.pc = "poll", !.idx = @ + 1])
                  /\ UNCHANGED exitStatus
             ELSE /\ Raise(stack, "ValueError")
                  /\ UNCHANGED processes
    /\ UNCHANGED <<tools, files, scripts, procs, signals, calls,
                   attempted, lastStart, report, errors, stopLog>>

\* print(Active ...); if len(active_nodes) == 0: break; time.sleep(30)
MonitorReport ==
    /\ At("monitor_nodes", "poll")
    /\ Top(stack).idx > Len(Top(stack).snap)
    /\ IF all_stopped(Top(stack).active)
       THEN /\ stack' = ReturnTo(Pop(stack))
            /\ exitStatus' = IF ReturnTo(Pop(stack)) = <<>> THEN Some(0) ELSE exitStatus
            /\ monitorLog' = monitorLog \cup {<<"returned", Len(processes), NoneVal>>}
       ELSE /\ stack' = SetTop(stack, [Top(stack) EXCEPT !.pc = "sleep"])
            /\ UNCHANGED <<exitStatus, monitorLog>>
    /\ UNCHANGED <<tools, files, scripts, procs, processes, signals, calls,
                   attempted, lastStart, report, errors, stopLog>>

\* time.sleep(30) ends and the while loop starts its next cycle.
MonitorSleep ==
    /\ At("monitor_nodes", "sleep")
    /\ stack' = SetTop(stack, [MonitorFrame EXCEPT !.via = Top(stack).via])
    /\ UNCHANGED <<tools, files, scripts, procs, processes, exitStatus, signals, calls,
                   attempted, lastStart, report, errors, stopLog, monitorLog>>

\* except KeyboardInterrupt: print(...); self.stop_all_nodes()
MonitorInterrupted ==
    /\ At("monitor_nodes", "interrupted")
    /\ stack' = Push(stack, StopAllFrame("call"))
    /\ UNCHANGED <<tools, files, scripts, procs, processes, exitStatus, signals, calls,
                   attempted, lastStart, report, errors, stopLog, monitorLog>>

\* ------------------------------------------------------------ library client
\* A program that uses ClusterManager as a library: it calls the public methods
\* one after the other, in any order.  No signal handler is installed, so Ctrl+C
\* raises KeyboardInterrupt in the running frame.
ReadyNodes == {n \in Nodes : check_node_ready(files[n])}

ClientStartNode ==
    /\ At("client", "idle")
    /\ calls < MaxCalls /\ Len(procs) < MaxProcs
    /\ \E n \in Nodes :
          stack' = Push(SetTop(stack, [Top(stack) EXCEPT !.pc = "called"]),
                        StartNodeFrame(n))
    /\ calls' = calls + 1
    /\ UNCHANGED <<tools, files, scripts, procs, processes, exitStatus, signals,
                   attempted, lastStart, report, errors, stopLog, monitorLog>>

ClientStartAll ==
    /\ At("client", "idle")
    /\ calls < MaxCalls /\ Len(procs) + Cardinality(ReadyNodes) <= MaxProcs
    /\ stack' = Push(SetTop(stack, [Top(stack) EXCEPT !.pc = "called"]), StartAllFrame)
    /\ attempted' = <<>>
    /\ calls' = calls + 1
    /\ UNCHANGED <<tools, files, scripts, procs, processes, exitStatus, signals,
                   lastStart, report, errors, stopLog, monitorLog>>

ClientStopAll ==
    /\ At("client", "idle")
    /\ calls < MaxCalls
    /\ stack' = Push(SetTop(stack, [Top(stack) EXCEPT !.pc = "called"]),
                     StopAllFrame("call"))
    /\ calls' = calls + 1
    /\ UNCHANGED <<tools, files, scripts, procs, processes, exitStatus, signals,
                   attempted, lastStart, report, errors, stopLog, monitorLog>>

ClientMonitor ==
    /\ At("client", "idle")
    /\ calls < MaxCalls
    /\ stack' = Push(SetTop(stack, [Top(stack) EXCEPT !.pc = "called"]), MonitorFrame)
    /\ calls' = calls + 1
    /\ UNCHANGED <<tools, files, scripts, procs, processes, exitStatus, signals,
                   attempted, lastStart, report, errors, stopLog, monitorLog>>

\* Ctrl+C with Python's default SIGINT handler.
KeyboardInterrupt ==
    /\ exitStatus = NoneVal /\ stack /= <<>>
    /\ stack[1].fn = "client"
    /\ signals < MaxSignals
    /\ signals' = signals + 1
    /\ Raise(stack, "KeyboardInterrupt")
    /\ UNCHANGED <<tools, files, scripts, procs, processes, calls,
                   attempted, lastStart, report, errors, stopLog, monitorLog>>

ApiInit ==
    /\ files \in [Nodes -> FileSets]
    /\ scripts = {}
    /\ procs = <<>>
    /\ processes = <<>>
    /\ stack = <<Frame("client", "idle")>>
    /\ exitStatus = NoneVal
    /\ signals = 0
    /\ calls = 0
    /\ attempted = <<>>
    /\ lastStart = NoneVal
    /\ report = NoneVal
    /\ errors = {}
    /\ stopLog = {}
    /\ monitorLog = {}
    /\ ToolsIdle

ApiNext ==
    \/ ChildExit
    \/ ChildSignalled
    \/ StartNodeCheck
    \/ StartNodeScript
    \/ StartNodeSpawn
    \/ StartNodeAppend
    \/ StartNodeFailed
    \/ StartAllLoop
    \/ StartAllSleep
    \/ StopAllTermNext
    \/ StopAllKillpg
    \/ StopAllTermPrint
    \/ StopAllTerminate
    \/ StopAllGrace
    \/ StopAllKillNext
    \/ StopAllPoll
    \/ StopAllKill
    \/ StopAllClear
    \/ StopAllReturn
    \/ MonitorPoll
    \/ MonitorRemove
    \/ MonitorReport
    \/ MonitorSleep
    \/ MonitorInterrupted
    \/ ClientStartNode
    \/ ClientStartAll
    \/ ClientStopAll
    \/ ClientMonitor
    \/ KeyboardInterrupt

ApiSpec == ApiInit /\ [][ApiNext]_vars

\* ------------------------------------------------------- readiness tools
\* What the working-directory contract puts into a node's directory: the names
\* check_cluster.py looks for.  venv_node stands for the directory venv_node_<i>.
\* The node directory itself is taken to exist.
Artifacts == {"main.py", "venv_node", "swarm.pem", "userApiKey.json", "userData.json"}

\* The node directories the tools are run on: at most MaxMissing artifacts absent.
NodeDirs == {Artifacts \ S : S \in {T \in SUBSET Artifacts : Cardinality(T) <= MaxMissing}}

\* The launch script: REQUIRED_FILES=("swarm.pem" "userApiKey.json" "userData.json")
script_required_files == <<"swarm.pem", "userApiKey.json", "userData.json">>

\* The launch script's loop: exit 1 at the first file for which [ ! -f "$file" ];
\* TRUE when the loop ends without exit and the script goes on to python main.py.
script_check(fs) == \A j \in 1..Len(script_required_files) : script_required_files[j] \in fs

\* check_cluster.py: the checks of one node, after "Directory".
checks == <<"main.py", "venv_node", "swarm.pem", "userApiKey.json", "userData.json">>

\* check_cluster.py: node_ready stays True only if every check's status is true.
node_ready(fs) == \A j \in 1..Len(checks) : checks[j] \in fs

\* What a tool found for node n.
Found(n, result) == Some([node_id |-> n, result |-> result])

\* cluster.check_node_ready(n) is called.
ToolCheckNodeReady ==
    \E n \in Nodes :
        /\ checked' = [checked EXCEPT !["check_node_ready"] =
                           Found(n, check_node_ready(files[n]))]
        /\ UNCHANGED <<files, scripts, procs, processes, stack, exitStatus, signals, calls,
                       attempted, lastStart, report, errors, stopLog, monitorLog,
                       credentials, node_creds, prep>>

\* The launch script of node n runs its file check in the node's directory.
ToolScriptCheck ==
    \E n \in Nodes :
        /\ checked' = [checked EXCEPT !["launch script"] = Found(n, script_check(files[n]))]
        /\ UNCHANGED <<files, scripts, procs, processes, stack, exitStatus, signals, calls,
                       attempted, lastStart, report, errors, stopLog, monitorLog,
                       credentials, node_creds, prep>>

\* check_cluster() examines node n.
ToolCheckCluster ==
    \E n \in Nodes :
        /\ checked' = [checked EXCEPT !["check_cluster"] = Found(n, node_ready(files[n]))]
        /\ UNCHANGED <<files, scripts, procs, processes, stack, exitStatus, signals, calls,
                       attempted, lastStart, report, errors, stopLog, monitorLog,
                       credentials, node_creds, prep>>

\* The supervisor is not running; the node directories hold any of NodeDirs.
ReadyInit ==
    /\ files \in [Nodes -> NodeDirs]
    /\ scripts = {}
    /\ procs = <<>>
    /\ processes = <<>>
    /\ stack = <<>>
    /\ exitStatus = NoneVal
    /\ signals = 0
    /\ calls = 0
    /\ attempted = <<>>
    /\ lastStart = NoneVal
    /\ report = NoneVal
    /\ errors = {}
    /\ stopLog = {}
    /\ monitorLog = {}
    /\ ToolsIdle

ReadyNext ==
    \/ ToolCheckNodeReady
    \/ ToolScriptCheck
    \/ ToolCheckCluster

ReadySpec == ReadyInit /\ [][ReadyNext]_vars

\* ---------------------------------------------------- prepare_credentials
\* f"node_{i}"
node_name(i) == <<"node_", i>>

\* The launch script: PORT=$((8000 + {node_id}))
script_port(node_id) == 8000 + node_id

\* user_data["port"] = 8000 + i
user_data_port(i) == 8000 + i

\* for i in range(1, 11)
PrepareNodes == 1..10

\* prepare_credentials.py: required_files
credential_files == <<"swarm.pem", "userApiKey.json", "userData.json">>

\* The members "key": value a template's text is made of; a key may be repeated.
TemplateMembers ==
    {<<"account", "x">>, <<"account", "y">>, <<"node_id", node_name(0)>>, <<"port", 9000>>}

\* The text of a JSON file: well-formed with its members in order, or malformed.
Texts ==
    {[valid |-> TRUE, members |-> m] :
        m \in UNION {[1..k -> TemplateMembers] : k \in 0..MaxMembers}}
    \cup {[valid |-> FALSE, members |-> <<>>]}

\* A Python dict is the sequence of its items in insertion order, keys distinct.
Keys(d) == {d[j][1] : j \in 1..Len(d)}

\* d[key] = value: an existing key keeps its place, a new one goes last.
setitem(d, key, value) ==
    IF key \in Keys(d)
    THEN [j \in 1..Len(d) |-> IF d[j][1] = key THEN <<key, value>> ELSE d[j]]
    ELSE Append(d, <<key, value>>)

\* json.load of a well-formed object: the members are stored one after the
\* other, so the last value of a repeated key wins.
RECURSIVE json_load(_)
json_load(members) ==
    IF members = <<>> THEN <<>>
    ELSE LET last == members[Len(members)]
         IN setitem(json_load(SubSeq(members, 1, Len(members) - 1)), last[1], last[2])

\* json.dump(d, f, indent=2): the items as members, in the dict's order.
json_dump(d) == [j \in 1..Len(d) |-> <<d[j][1], d[j][2]>>]

\* The objects prepare_credentials holds are kept in a heap, a variable holds a
\* reference.  An assignment through the same reference changes the same dict.
copy_alias(heap, ref) == [heap |-> heap, ref |-> ref]

\* dict.copy(): a new dict with the same items.
copy(heap, ref) == [heap |-> Append(heap, heap[ref]), ref |-> Len(heap) + 1]

\* The files missing from rl-swarm-cluster/credentials.
missing_credentials(present) == SelectSeq(credential_files, LAMBDA f : f \notin present)

\* prepare_credentials() is run.
PrepareStart ==
    /\ prep.pc = "idle"
    /\ prep' = [prep EXCEPT !.pc = "check"]
    /\ UNCHANGED <<files, scripts, procs, processes, stack, exitStatus, signals, calls,
                   attempted, lastStart, report, errors, stopLog, monitorLog,
                   checked, credentials, node_creds>>

\* if missing_files: ... return False
PrepareCheck ==
    /\ prep.pc = "check"
    /\ prep' = IF missing_credentials(credentials.present) /= <<>>
               THEN [prep EXCEPT !.pc = "done", !.result = Some(FALSE)]
               ELSE [prep EXCEPT !.pc = "load"]
    /\ UNCHANGED <<files, scripts, procs, processes, stack, exitStatus, signals, calls,
                   attempted, lastStart, report, errors, stopLog, monitorLog,
                   checked, credentials, node_creds>>

\* base_api_key = json.load(f); base_user_data = json.load(f);
\* except json.JSONDecodeError: return False
PrepareLoad ==
    /\ prep.pc = "load"
    /\ prep' = IF credentials.api.valid /\ credentials.data.valid
               THEN [prep EXCEPT !.pc = "node", !.i = 1,
                        !.heap = <<json_load(credentials.api.members),
                                   json_load(credentials.data.members)>>,
                        !.base_api_key = 1, !.base_user_data = 2]
               ELSE [prep EXCEPT !.pc = "done", !.result = Some(FALSE)]
    /\ UNCHANGED <<files, scripts, procs, processes, stack, exitStatus, signals, calls,
                   attempted, lastStart, report, errors, stopLog, monitorLog,
                   checked, credentials, node_creds>>

\* One pass of the loop body for node i: copy swarm.pem, write the node's
\* userApiKey.json and userData.json.
PrepareNode ==
    /\ prep.pc = "node"
    /\ prep.i \in PrepareNodes
    /\ LET i == prep.i
           a == copy(prep.heap, prep.base_api_key)
           api_key_data == a.ref
           h1 == [a.heap EXCEPT ![api_key_data] = setitem(@, "node_id", node_name(i))]
           u == copy(h1, prep.base_user_data)
           user_data == u.ref
           h2 == [u.heap EXCEPT ![user_data] = setitem(@, "node_id", node_name(i))]
           h3 == [h2 EXCEPT ![user_data] = setitem(@, "port", user_data_port(i))]
       IN /\ node_creds' = [node_creds EXCEPT ![i] =
                               Some([api |-> json_dump(h1[api_key_data]),
                                     data |-> json_dump(h3[user_data])])]
          /\ files' = [n \in Nodes |-> IF n = i
                                       THEN files[n] \cup Range(credential_files)
                                       ELSE files[n]]
          /\ prep' = [prep EXCEPT !.heap = h3, !.i = i + 1]
    /\ UNCHANGED <<scripts, procs, processes, stack, exitStatus, signals, calls,
                   attempted, lastStart, report, errors, stopLog, monitorLog,
                   checked, credentials>>

\* shutil.copy2 or open raises (the node directory does not exist): the
\* exception is not caught and prepare_credentials ends there.
PrepareRaise ==
    /\ prep.pc = "node"
    /\ prep.i \in PrepareNodes
    /\ prep' = [prep EXCEPT !.pc = "raised"]
    /\ UNCHANGED <<files, scripts, procs, processes, stack, exitStatus, signals, calls,
                   attempted, lastStart, report, errors, stopLog, monitorLog,
                   checked, credentials, node_creds>>

\* The loop is over: return True
PrepareReturn ==
    /\ prep.pc = "node"
    /\ prep.i \notin PrepareNodes
    /\ prep' = [prep EXCEPT !.pc = "done", !.result = Some(TRUE)]
    /\ UNCHANGED <<files, scripts, procs, processes, stack, exitStatus, signals, calls,
                   attempted, lastStart, report, errors, stopLog, monitorLog,
                   checked, credentials, node_creds>>

\* The supervisor is not running; the node directories hold what the setup left
\* there; the credentials directory holds any of the templates.
PrepareInit ==
    /\ files = [n \in Nodes |-> {"main.py", "venv_node"}]
    /\ scripts = {}
    /\ procs = <<>>
    /\ processes = <<>>
    /\ stack = <<>>
    /\ exitStatus = NoneVal
    /\ signals = 0
    /\ calls = 0
    /\ attempted = <<>>
    /\ lastStart = NoneVal
    /\ report = NoneVal
    /\ errors = {}
    /\ stopLog = {}
    /\ monitorLog = {}
    /\ checked = [t \in {"check_node_ready", "launch script", "check_cluster"} |-> NoneVal]
    /\ credentials \in [present : SUBSET Range(credential_files), api : Texts, data : Texts]
    /\ node_creds = [i \in PrepareNodes |-> NoneVal]
    /\ prep = [pc |-> "idle", i |-> 0, heap |-> <<>>, base_api_key |-> 0,
               base_user_data |-> 0, result |-> NoneVal]

PrepareNext ==
    \/ PrepareStart
    \/ PrepareCheck
    \/ PrepareLoad
    \/ PrepareNode
    \/ PrepareRaise
    \/ PrepareReturn

PrepareSpec == PrepareInit /\ [][PrepareNext]_vars

\* ================================================================ claims
\* A node's directory holds every file the readiness check asks for.
Provisioned(n) ==
    {"swarm.pem", "userApiKey.json", "userData.json", "main.py"} \subseteq files[n]

\* The provisioned node_ids, ascending.
ReadySeq == SelectSeq([j \in 1..TotalNodes |-> j], Provisioned)

Frames(fn) == {j \in 1..Len(stack) : stack[j].fn = fn}

\* The state of a node process's record: Killed once the forceful kill has been
\* sent to it, Exited once it has ended otherwise, Running until then.
NodeState(p) ==
    IF procs[p].kill THEN "Killed"
    ELSE IF procs[p].status /= NoneVal THEN "Exited"
    ELSE "Running"

\* A spawned process that has been entered in the table (now or earlier): every
\* process but the one a start_node frame holds between Popen and append.
Tracked(p) ==
    ~\E j \in Frames("start_node") : stack[j].pc = "append" /\ stack[j].process = p

\* The monitor has logged the exit of node n's process and removed its entry.
LoggedStopped(n) == \E ev \in monitorLog : ev[1] = "stopped" /\ ev[2] = n

\* C1: a start_node call that returns None (node not ready, or Popen raised) left
\* the table as it was and created no OS process; a call for a node that is not
\* ready returns None; a call that returns a process created exactly one OS
\* process, of that node_id, and appended exactly one entry, for it.
C1_StartNodeOutcome ==
    lastStart /= NoneVal =>
        LET r == lastStart[1]
        IN /\ ~Provisioned(r.node_id) => r.result = NoneVal
           /\ r.result = NoneVal => r.after = r.before /\ r.spawned = 0
           /\ r.result /= NoneVal =>
                 /\ r.spawned = 1
                 /\ procs[r.result[1]].node_id = r.node_id
                 /\ r.after = Append(r.before, Entry(r.node_id, r.result[1]))

\* A start_node that failed at Popen while the table already held an entry.
C1_Witness ==
    /\ lastStart /= NoneVal
    /\ lastStart[1].result = NoneVal
    /\ Provisioned(lastStart[1].node_id)
    /\ Len(lastStart[1].before) > 0

\* C2: no node_id appears twice in the process table, whatever sequence of
\* start_node, start_all, stop_all and monitor calls has been made.
C2_UniqueNodeIds ==
    \A i, j \in 1..Len(processes) :
        processes[i].node_id = processes[j].node_id => i = j

\* C3: as long as no signal has arrived, a failed start of one node (not ready,
\* Popen raised, or the launch script could not be written) does not abort
\* start_all: until start_all has reported, main is still at its start_all call;
\* once it has, every node_id 1..N was attempted; and no started node has been
\* sent a stop signal.
C3_FailureIsolated ==
    signals = 0 =>
        /\ report = NoneVal => stack /= <<>> /\ stack[1].pc = "start_all"
        /\ report /= NoneVal => attempted = [j \in 1..TotalNodes |-> j]
        /\ \A p \in 1..Len(procs) : ~procs[p].term /\ ~procs[p].kill

\* C4: when start_all returns, Popen never having failed, the table holds exactly
\* one entry per provisioned node_id, in ascending order, and none for another
\* node; the success count is their number K and the failure count is N - K.
C4_StartAllReport ==
    (report /= NoneVal /\ "spawn" \notin errors) =>
        LET r == report[1]
            K == Len(ReadySeq)
        IN /\ NodeIds(r.table) = ReadySeq
           /\ r.success = K
           /\ r.total - r.success = TotalNodes - K

\* N = 3 with node 2 not ready: entries for nodes 1 and 3, 2 successes, 1 failure.
C4_Witness ==
    /\ report /= NoneVal /\ "spawn" \notin errors
    /\ ReadySeq = <<1, 3>>
    /\ NodeIds(report[1].table) = <<1, 3>>
    /\ report[1].success = 2 /\ report[1].total - report[1].success = 1

\* C5: at most one execution of stop_all is in flight at any instant: a signal
\* that arrives while stop_all runs does not enter stop_all again.
C5_SingleStopAll == Cardinality(Frames("stop_all_nodes")) <= 1

\* C7: when the stop_all run by the signal handler has finished its grace period
\* and escalation pass, the table is empty and every node process that was ever
\* tracked is Killed or Exited and has been sent the termination signal, unless
\* it was no longer Running at the interrupt: the monitor had observed its exit.
C7_InterruptStopsAll ==
    \A j \in Frames("stop_all_nodes") :
        (stack[j].via = "signal" /\ stack[j].pc = "return") =>
            /\ processes = <<>>
            /\ \A p \in 1..Len(procs) :
                  Tracked(p) =>
                      /\ NodeState(p) \in {"Killed", "Exited"}
                      /\ procs[p].term \/ procs[p].returncode /= NoneVal

\* One interrupt while 3 nodes were running; all 3 outlived the grace period and
\* were killed by the escalation pass.
C7_Witness ==
    /\ signals = 1
    /\ At("stop_all_nodes", "return") /\ Top(stack).via = "signal"
    /\ Len(procs) = 3
    /\ \A p \in 1..Len(procs) : procs[p].term /\ procs[p].kill

\* C8: when stop_all returns, a poll made at once finds no entry of the table
\* Running: the table is empty, or holds only Killed or Exited entries.
C8_NoneRunningAfterStopAll ==
    At("stop_all_nodes", "return") =>
        \A j \in 1..Len(processes) :
            NodeState(processes[j].process) \in {"Killed", "Exited"}

\* stop_all returns while a process it was tracking is not yet dead.
C8_Witness ==
    /\ At("stop_all_nodes", "return")
    /\ \E p \in 1..Len(procs) : Tracked(p) /\ procs[p].status = NoneVal

\* C9: a failure to deliver the termination signal to one entry never unwinds
\* stop_all (the step that raises leaves the frame in place, at its fallback);
\* and a stop_all in which delivery has failed still returns with the table
\* cleared and every tracked process signalled or seen dead, then killed or seen dead.
C9_SignalErrorSwallowed ==
    /\ [][(At("stop_all_nodes", "term_try") /\ killpg_fails(procs, Top(stack).process))
            => (Len(stack') >= Len(stack) /\ exitStatus' = exitStatus)]_vars
    /\ [](("SignalError" \in stopLog /\ At("stop_all_nodes", "return")) =>
            /\ processes = <<>>
            /\ \A p \in 1..Len(procs) :
                  (Tracked(p) /\ ~LoggedStopped(procs[p].node_id)) =>
                      /\ procs[p].term \/ procs[p].returncode /= NoneVal
                      /\ procs[p].kill \/ procs[p].returncode /= NoneVal)

\* A stop_all in which killpg failed for one of two or more entries returns.
C9_Witness ==
    /\ "SignalError" \in stopLog
    /\ At("stop_all_nodes", "return")
    /\ Len(procs) >= 2
    /\ \E p \in 1..Len(procs) : procs[p].kill

\* C6: once a signal has been received the supervisor terminates, with exit
\* status 0; it does not end before the handler's stop_all has returned; and
\* once the handler has returned, all the supervisor still runs is a stop_all
\* that was already in progress: sys.exit(0) is never caught in a way that lets
\* start_all or the monitor go on.
C6_SignalLeadsToExit ==
    /\ (signals > 0) ~> (exitStatus = Some(0))
    /\ []((signals > 0 /\ exitStatus /= NoneVal) =>
            ("handler returned" \in stopLog /\ exitStatus = Some(0)))
    /\ []((exitStatus = NoneVal /\ "handler returned" \in stopLog) =>
            Top(stack).fn = "stop_all_nodes")

\* A second signal arrived inside a try block of a running stop_all: the inner
\* handler's SystemExit was caught there, and the supervisor still exited with 0.
C6_Witness ==
    /\ signals = 2
    /\ "SystemExit caught" \in stopLog
    /\ exitStatus = Some(0)
    /\ \E p \in 1..Len(procs) : procs[p].kill

MonitorReturned == \E ev \in monitorLog : ev[1] = "returned"

AllTrackedEnded == \A j \in 1..Len(processes) : procs[processes[j].process].status /= NoneVal

\* C10: if the monitor is running, every tracked process has ended and no signal
\* arrives, the monitor returns normally; and it returns normally only with the
\* table empty and no spawned process still alive.
C10_MonitorDrains ==
    /\ (Frames("monitor_nodes") /= {} /\ AllTrackedEnded /\ signals = 0)
          ~> (MonitorReturned \/ signals > 0)
    /\ [](MonitorReturned =>
            /\ \A ev \in monitorLog : ev[1] = "returned" => ev[2] = 0
            /\ processes = <<>>
            /\ \A p \in 1..Len(procs) : procs[p].status /= NoneVal)

\* The monitor returned normally after logging the exits of two nodes, one by one.
C10_Witness ==
    /\ MonitorReturned /\ signals = 0
    /\ LoggedStopped(1) /\ LoggedStopped(2)
    /\ exitStatus = Some(0)

\* C11: the readiness check returns false if and only if at least one artifact of
\* the node's ready-marker set (entry point, key file, the two JSON bundles, the
\* isolated runtime directory) is absent from the node's directory.
C11_NotReadyIffArtifactAbsent ==
    \A n \in Nodes, r \in BOOLEAN :
        checked["check_node_ready"] = Found(n, r)
            => (r = FALSE <=> \E a \in Artifacts : a \notin files[n])

\* C17: for any set of files in the node's directory, the launch script's file
\* check passes exactly when check_node_ready returns true.
C17_ScriptCheckAgrees ==
    \A n \in Nodes, r1, r2 \in BOOLEAN :
        /\ checked["launch script"] = Found(n, r1)
        /\ checked["check_node_ready"] = Found(n, r2)
        => r1 = r2

\* The value the dict d holds for key k.
Value(d, k) == d[CHOOSE j \in 1..Len(d) : d[j][1] = k][2]

\* The object in file text f is the object in template text t with exactly the
\* keys of upd set to their values there, every other key as in the template.
IsTemplateWith(f, t, upd) ==
    LET obj == json_load(f)
        tpl == json_load(t)
    IN /\ Keys(obj) = Keys(tpl) \cup DOMAIN upd
       /\ \A k \in DOMAIN upd : Value(obj, k) = upd[k]
       /\ \A k \in Keys(tpl) \ DOMAIN upd : Value(obj, k) = Value(tpl, k)

\* C12: every per-node userApiKey file prepare_credentials wrote is the template
\* with only node_id set to node_i, every userData file is the template with only
\* node_id set to node_i and port set to 8000+i, which is the launch script's
\* port; the templates, on disk and in memory, are never modified.
C12_CredentialsFromTemplate ==
    /\ [](\A i \in PrepareNodes :
            node_creds[i] /= NoneVal =>
               /\ IsTemplateWith(node_creds[i][1].api, credentials.api.members,
                                 [k \in {"node_id"} |-> node_name(i)])
               /\ IsTemplateWith(node_creds[i][1].data, credentials.data.members,
                                 [k \in {"node_id", "port"} |->
                                     IF k = "port" THEN script_port(i) ELSE node_name(i)]))
    /\ [](prep.pc = "node" =>
            /\ prep.heap[prep.base_api_key] = json_load(credentials.api.members)
            /\ prep.heap[prep.base_user_data] = json_load(credentials.data.members))
    /\ [][credentials' = credentials]_vars

\* prepare_credentials has written all ten nodes from templates that hold a
\* key of their own and stale node_id and port values.
C12_Witness ==
    /\ prep.pc = "done" /\ prep.result = Some(TRUE)
    /\ \A i \in PrepareNodes : node_creds[i] /= NoneVal
    /\ Keys(json_load(credentials.api.members)) = {"account", "node_id"}
    /\ Keys(json_load(credentials.data.members)) = {"account", "port"}

\* The stop_all_nodes frames that have left their signalling pass.
PastTermPass == {j \in Frames("stop_all_nodes") :
                    stack[j].pc \in {"grace", "kill", "kill_try", "kill_do", "clear"}}

\* C13 (as stated): when a stop_all is past its signalling pass, the graceful
\* signal has been sent to every tracked entry.
C13_TermSentToEveryEntry ==
    PastTermPass /= {} =>
        \A j \in 1..Len(processes) : procs[processes[j].process].term

\* The monitor has examined every entry of its cycle and is about to report.
CycleEnd == At("monitor_nodes", "poll") /\ Top(stack).idx > Len(Top(stack).snap)

\* C14: in a monitor cycle every entry of the table is examined once; the monitor
\* removes an entry only after its process reported completion and its exit code
\* was logged, never while the process is alive, and at the end of the cycle the
\* table holds exactly the entries not reported complete, whose node_ids are
\* the ones reported as active.
C14_MonitorCycle ==
    /\ [](CycleEnd =>
            /\ processes = SelectSeq(Top(stack).snap,
                              LAMBDA e : procs[e.process].returncode = NoneVal)
            /\ NodeIds(processes) = Top(stack).active)
    /\ [](At("monitor_nodes", "remove") =>
            procs[Top(stack).snap[Top(stack).idx].process].returncode /= NoneVal)
    /\ [][(Running("monitor_nodes") /\ processes' /= processes) =>
            LET e == Top(stack).snap[Top(stack).idx]
            IN /\ Top(stack).pc = "remove"
               /\ procs[e.process].status /= NoneVal
               /\ procs[e.process].returncode = procs[e.process].status
               /\ <<"stopped", e.node_id, procs[e.process].returncode>> \in monitorLog'
               /\ processes' = remove(processes, e)]_vars

\* A cycle over two entries ends with one of them removed and the other active.
C14_Witness ==
    /\ CycleEnd
    /\ Len(Top(stack).snap) = 2
    /\ Len(Top(stack).active) = 1
    /\ Len(processes) = 1

\* C15: start_all attempts the node_ids 1..N in ascending order, each once; the
\* table's entries are in the order their processes were started, so the table
\* is sorted by ascending node_id, during start_all and when it has returned.
C15_AscendingStartOrder ==
    /\ Len(attempted) <= TotalNodes
    /\ \A j \in 1..Len(attempted) : attempted[j] = j
    /\ \A j, k \in 1..Len(processes) :
          j < k => /\ processes[j].process < processes[k].process
                   /\ processes[j].node_id < processes[k].node_id
    /\ report /= NoneVal =>
          /\ attempted = [j \in 1..TotalNodes |-> j]
          /\ \A j, k \in 1..Len(report[1].table) :
                j < k => report[1].table[j].node_id < report[1].table[k].node_id

\* start_all has returned with at least two nodes started.
C15_Witness ==
    /\ report /= NoneVal
    /\ Len(report[1].table) >= 2
    /\ Len(processes) >= 2

C18_StaggerOnlyBetweenStarts ==
    \A j \in Frames("start_all_nodes") :
        stack[j].pc = "sleep" =>
            \E m \in Nodes : m > stack[j].node_id /\ check_node_ready(files[m])

\* C19: while a signal handler's stop_all runs, every process spawned so far has
\* been entered in the table; and when the supervisor has exited, no process it
\* spawned is running without ever having been sent a termination signal.
C19_NoSpawnedProcessEscapes ==
    /\ (\E j \in Frames("stop_all_nodes") : stack[j].via = "signal") =>
          \A p \in 1..Len(procs) : Tracked(p)
    /\ exitStatus /= NoneVal =>
          \A p \in 1..Len(procs) : Alive(p) => (procs[p].term \/ procs[p].kill)

\* C20: whenever the supervisor's main routine has ended, whichever way, the
\* process table is empty.
C20_TableEmptyAtExit ==
    (exitStatus /= NoneVal \/ stack = <<>>) => processes = <<>>

\* An exception escaped start_all after a node had been started; main's except
\* clause ran stop_all, which signalled the node, and main has ended.
C20_Witness ==
    /\ exitStatus /= NoneVal
    /\ "script" \in errors
    /\ signals = 0
    /\ \E p \in 1..Len(procs) : procs[p].term
    /\ processes = <<>>

Next ==
    \/ ChildExit
    \/ ChildSignalled
    \/ StartNodeCheck
    \/ StartNodeScript
    \/ StartNodeSpawn
    \/ StartNodeAppend
    \/ StartNodeFailed
    \/ StartAllLoop
    \/ StartAllSleep
    \/ MainStartAll
    \/ MainExcept
    \/ StopAllTermNext
    \/ StopAllKillpg
    \/ StopAllTermPrint
    \/ StopAllTerminate
    \/ StopAllGrace
    \/ StopAllKillNext
    \/ StopAllPoll
    \/ StopAllKill
    \/ StopAllClear
    \/ StopAllReturn
    \/ MainMonitor
    \/ MonitorPoll
    \/ MonitorRemove
    \/ MonitorReport
    \/ MonitorSleep
    \/ Signal

Spec == Init /\ [][Next]_vars

\* The steps of the supervisor's own thread.
Supervisor ==
    \/ StartNodeCheck
    \/ StartNodeScript
    \/ StartNodeSpawn
    \/ StartNodeAppend
    \/ StartNodeFailed
    \/ StartAllLoop
    \/ StartAllSleep
    \/ MainStartAll
    \/ MainExcept
    \/ StopAllTermNext
    \/ StopAllKillpg
    \/ StopAllTermPrint
    \/ StopAllTerminate
    \/ StopAllGrace
    \/ StopAllKillNext
    \/ StopAllPoll
    \/ StopAllKill
    \/ StopAllClear
    \/ StopAllReturn
    \/ MainMonitor
    \/ MonitorPoll
    \/ MonitorRemove
    \/ MonitorReport
    \/ MonitorSleep

\* The interpreter keeps running the supervisor's thread: its sleeps end and its
\* next statement is executed.  Nothing is assumed of the node processes.
\* The fleet has at most MaxReady provisioned nodes.
FairInit == Init /\ Cardinality(ReadyNodes) <= MaxReady

FairSpec == FairInit /\ [][Next]_vars /\ WF_vars(Supervisor)
====
